---- MODULE Spec2Model ----
(***************************************************************************)
(* A model of revup.py: the directive interpreter (Revup.process_inputfile *)
(* and Revup.populate_named_props), the external command invoker           *)
(* (ResimExecutor.execute), the address pattern matcher                    *)
(* (extract_output_addresses), the manifest template processor             *)
(* (do_run_manifest), the variable substitution engine                     *)
(* (perform_variable_sub) and the binding writer (write_props_to_env).     *)
(*                                                                         *)
(* Python str values are TLA+ strings; a Python dict is a sequence of      *)
(* <<key, value>> pairs with unique keys, in insertion order.              *)
(***************************************************************************)
EXTENDS Integers, Sequences, FiniteSets, TLC

VARIABLES
    commands,         \* process_inputfile: the lines read from the input file
    idx,              \* process_inputfile: position of the for loop (next line)
    pc,               \* process_inputfile: "loop", "done" or "aborted"
    named_props_map,  \* process_inputfile: the binding map
    trace,            \* one record per line the loop has handled: the binding
                      \* map at that point, the process started, what execute
                      \* returned and the bindings recorded
    env_file,         \* content of the file ENV_FILE
    env_writes,       \* number of calls of write_props_to_env
    env_error,        \* write_props_to_env logged a failure (line 107)
    fs,               \* manifest files and the .dat files written beside them
    txt,              \* pure-function check: the text argument
    named_props,      \* pure-function check: the dict argument
    result,           \* pure-function check: the value returned
    tool_output,      \* pure-function check: the output lines argument
    extracted,        \* pure-function check: the address list returned
    op                \* pure-function check: which function was applied

vars == <<commands, idx, pc, named_props_map, trace, env_file, env_writes, env_error,
          fs, txt, named_props, result, tool_output, extracted, op>>

progVars == <<commands, idx, pc, named_props_map, trace, env_file, env_writes, env_error,
              fs>>
funVars == <<txt, named_props, result, tool_output, extracted, op>>

(***************************************************************************)
(* Bounds of the model.                                                    *)
(***************************************************************************)
MaxLines == 2     \* lines in the input file
MaxTxt == 5       \* characters in a text handed to a substitution function
MaxProps == 2     \* entries of the dict handed to a substitution function
MaxOutput == 2    \* lines of tool output handed to extract_output_addresses

(***************************************************************************)
(* Python str and list primitives.                                         *)
(***************************************************************************)
Min(S) == CHOOSE m \in S : \A n \in S : m <= n

Char(s, i) == SubSeq(s, i, i)

\* s[i-1:j] of Python, for i >= 1: the slice stops at the end of s.
Slice(s, i, j) ==
    IF i > Len(s) \/ j < i THEN "" ELSE SubSeq(s, i, IF j > Len(s) THEN Len(s) ELSE j)

\* str.find(sub): position of the first occurrence, counted from 1; 0 when
\* there is none (Python counts from 0 and returns -1).
find(s, sub) ==
    LET hits == {i \in 1..(Len(s) - Len(sub) + 1) : SubSeq(s, i, i + Len(sub) - 1) = sub}
    IN  IF hits = {} THEN 0 ELSE Min(hits)

startswith(s, prefix) ==
    Len(prefix) <= Len(s) /\ SubSeq(s, 1, Len(prefix)) = prefix

\* str.replace(old, new) for a non-empty old: every non-overlapping occurrence,
\* scanning from the left.
RECURSIVE replace(_, _, _)
replace(s, old, new) ==
    LET i == find(s, old)
    IN  IF i = 0 THEN s
        ELSE SubSeq(s, 1, i - 1) \o new \o replace(SubSeq(s, i + Len(old), Len(s)), old, new)

\* str.split(sep) for a non-empty sep.
RECURSIVE split(_, _)
split(s, sep) ==
    LET i == find(s, sep)
    IN  IF i = 0 THEN <<s>>
        ELSE <<SubSeq(s, 1, i - 1)>> \o split(SubSeq(s, i + Len(sep), Len(s)), sep)

Whitespace == {" ", "\t", "\n", "\r"}

\* str.strip()
RECURSIVE lstrip(_)
lstrip(s) ==
    IF Len(s) > 0 /\ Char(s, 1) \in Whitespace THEN lstrip(SubSeq(s, 2, Len(s))) ELSE s

RECURSIVE rstrip(_)
rstrip(s) ==
    IF Len(s) > 0 /\ Char(s, Len(s)) \in Whitespace THEN rstrip(SubSeq(s, 1, Len(s) - 1)) ELSE s

strip(s) == rstrip(lstrip(s))

(***************************************************************************)
(* Python dict primitives on sequences of <<key, value>> pairs.            *)
(***************************************************************************)
Keys(d) == {d[i][1] : i \in DOMAIN d}

Get(d, k) == d[CHOOSE i \in DOMAIN d : d[i][1] = k][2]

\* variant: an existing key keeps its value (dict.setdefault)
DictSet_keep(d, k, v) ==
    IF k \in Keys(d) THEN d ELSE Append(d, <<k, v>>)

\* d[k] = v: an existing key keeps its position, a new key goes last.
DictSet(d, k, v) ==
    IF k \in Keys(d)
    THEN [i \in DOMAIN d |-> IF d[i][1] = k THEN <<k, v>> ELSE d[i]]
    ELSE Append(d, <<k, v>>)

\* variant: the dict is assigned instead of updated
DictUpdate_assign(d, other) == other

\* d.update(other)
RECURSIVE DictUpdate(_, _)
DictUpdate(d, other) ==
    IF other = <<>> THEN d
    ELSE DictUpdate(DictSet(d, other[1][1], other[1][2]), Tail(other))

\* variant of perform_variable_sub: str.replace(old, new, 1)
RECURSIVE perform_variable_sub_first(_, _)
perform_variable_sub_first(t, props) ==
    IF props = <<>> THEN t
    ELSE LET i == find(t, "$" \o props[1][1])
         IN  IF i # 0
             THEN SubSeq(t, 1, i - 1) \o props[1][2]
                  \o SubSeq(t, i + Len(props[1][1]) + 1, Len(t))
             ELSE perform_variable_sub_first(t, Tail(props))

(***************************************************************************)
(* perform_variable_sub                                                    *)
(***************************************************************************)
RECURSIVE perform_variable_sub(_, _)
perform_variable_sub(t, props) ==
    IF props = <<>> THEN t
    ELSE IF find(t, "$" \o props[1][1]) # 0
         THEN replace(t, "$" \o props[1][1], props[1][2])
         ELSE perform_variable_sub(t, Tail(props))

(***************************************************************************)
(* do_run_manifest, the loop over the bound names for one manifest line.   *)
(***************************************************************************)
RECURSIVE normalized_line(_, _)
normalized_line(line, props) ==
    IF props = <<>> THEN line
    ELSE normalized_line(replace(line, "$" \o props[1][1], props[1][2]), Tail(props))

(***************************************************************************)
(* Character classes and the regular expressions of the program.           *)
(***************************************************************************)
LOWER == "abcdefghijklmnopqrstuvwxyz"
UPPER == "ABCDEFGHIJKLMNOPQRSTUVWXYZ"
DIGITS == "0123456789"

CharsOf(s) == {Char(s, i) : i \in 1..Len(s)}

\* \w
WordChars == CharsOf(LOWER) \cup CharsOf(UPPER) \cup CharsOf(DIGITS) \cup {"_"}

\* [0-9a-fA-F]
HexChars == CharsOf(DIGITS) \cup CharsOf("abcdef") \cup CharsOf("ABCDEF")

UpperChars == CharsOf(UPPER)

LowerChar(c) ==
    IF c \in UpperChars
    THEN Char(LOWER, CHOOSE i \in 1..Len(UPPER) : Char(UPPER, i) = c)
    ELSE c

RECURSIVE lower(_)
lower(s) == IF s = "" THEN "" ELSE LowerChar(Char(s, 1)) \o lower(SubSeq(s, 2, Len(s)))

\* The longest prefix of s made of characters of the class.
RECURSIVE RunOf(_, _)
RunOf(s, class) ==
    IF Len(s) > 0 /\ Char(s, 1) \in class
    THEN Char(s, 1) \o RunOf(SubSeq(s, 2, Len(s)), class)
    ELSE ""

\* re.search(r"run .+(\w+\.rtm)", cmd): "run ", at least one character, at
\* least one word character, ".rtm" (case-sensitive).
IsManifestRun(cmd) ==
    \E p, q \in 1..Len(cmd) :
        /\ Slice(cmd, p, p + 3) = "run "
        /\ Slice(cmd, q, q + 3) = ".rtm"
        /\ q - 2 >= p + 4
        /\ Char(cmd, q - 1) \in WordChars

\* re.search(re.compile(r"(\w+\.rtm)", re.IGNORECASE), cmd).group(1): the
\* leftmost run of word characters that ".rtm" follows; "" when there is none.
tx_file_name(cmd) ==
    LET starts == {s \in 1..Len(cmd) :
                     LET w == RunOf(SubSeq(cmd, s, Len(cmd)), WordChars)
                     IN  /\ Len(w) > 0
                         /\ lower(Slice(cmd, s + Len(w), s + Len(w) + 3)) = ".rtm"}
    IN  IF starts = {} THEN ""
        ELSE LET s == Min(starts)
                 w == RunOf(SubSeq(cmd, s, Len(cmd)), WordChars)
             IN  SubSeq(cmd, s, s + Len(w) + 3)

\* ResimExecutor.__init__: the five patterns all have the shape
\* <label>([0-9a-fA-F]+) and are compiled with re.IGNORECASE.
address_extract_patterns ==
    << "component: ", "resource: ", "package: ",
       "account component address: ", "public key: " >>

\* re.search(p, s).group(1); "" when p does not match (a match captures at
\* least one character).
SearchGroup(label, s) ==
    LET hits == {i \in 1..Len(s) :
                    /\ lower(Slice(s, i, i + Len(label) - 1)) = label
                    /\ i + Len(label) <= Len(s)
                    /\ Char(s, i + Len(label)) \in HexChars}
    IN  IF hits = {} THEN ""
        ELSE RunOf(SubSeq(s, Min(hits) + Len(label), Len(s)), HexChars)

\* str(line) of a bytes line without quotes, backslashes or control bytes.
StrOfBytes(line) == "b'" \o line \o "'"

\* variant: a break after the first pattern that matches the line
RECURSIVE MatchesOfLine_break(_, _)
MatchesOfLine_break(line, patterns) ==
    IF patterns = <<>> THEN <<>>
    ELSE LET g == SearchGroup(patterns[1], StrOfBytes(line))
         IN  IF g = "" THEN MatchesOfLine_break(line, Tail(patterns)) ELSE <<g>>

RECURSIVE MatchesOfLine(_, _)
MatchesOfLine(line, patterns) ==
    IF patterns = <<>> THEN <<>>
    ELSE LET g == SearchGroup(patterns[1], StrOfBytes(line))
         IN  (IF g = "" THEN <<>> ELSE <<g>>) \o MatchesOfLine(line, Tail(patterns))

RECURSIVE extract_output_addresses(_)
extract_output_addresses(cmd_output) ==
    IF cmd_output = <<>> THEN <<>>
    ELSE MatchesOfLine(cmd_output[1], address_extract_patterns)
         \o extract_output_addresses(Tail(cmd_output))

(***************************************************************************)
(* Program constants.                                                      *)
(***************************************************************************)
RESIM_COMMAND == "resim"
ENV_FILE == ".env"

(***************************************************************************)
(* The inputs of a run: the input file, what the external tool prints, the *)
(* manifest file and the prior content of the env file.                    *)
(***************************************************************************)
Lines ==
    { "\n",
      "// c\n",
      "\\\\ c\n",
      "n -> a\n",
      "n -> a b\n",
      "n -> b b\n",
      "s $a $b -> ab\n",
      "n -> a -> b\n",
      "n -> a  b\n",
      "run tx.rtm -> a\n" }

RECURSIVE SeqsUpTo(_, _)
SeqsUpTo(S, n) ==
    IF n = 0 THEN {<<>>}
    ELSE LET shorter == SeqsUpTo(S, n - 1)
         IN  shorter \cup {Append(q, x) : q \in {r \in shorter : Len(r) = n - 1}, x \in S}

InputFiles == SeqsUpTo(Lines, MaxLines)

\* stdout of a run of the tool that exits with status 0, as lines
ToolOutputs ==
    { <<"Component: 1a">>,
      <<"Account component address: 2b", "Public key: 3c">>,
      <<"package: 4d resource: 5e", "Transaction Status: SUCCESS", "component: 1a">> }

\* execute, lines 132-133, for each of these outputs
ExtractedAddresses == [output \in ToolOutputs |-> extract_output_addresses(output)]

ManifestFile == "tx.rtm"
ManifestContent == <<"CALL $a $a $b;\n", "$ab\n">>

NoFiles == [n \in {} |-> <<>>]
FileSystems ==
    { NoFiles,
      [n \in {ManifestFile} |-> ManifestContent],
      [n \in {ManifestFile} |-> <<>>] }

PriorEnv == <<"old=ff\n">>

(***************************************************************************)
(* Revup.populate_named_props                                              *)
(***************************************************************************)
RECURSIVE ZipProps(_, _, _, _)
ZipProps(named_props_parts, addresses, i, acc) ==
    IF i > Len(named_props_parts) THEN acc
    ELSE ZipProps(named_props_parts, addresses, i + 1,
                  DictSet(acc, named_props_parts[i], addresses[i]))

\* variant: < in place of <= on line 67
populate_named_props_strict(names, addresses) ==
    IF Len(names) > 0
    THEN LET named_props_parts == split(names, " ")
         IN  IF Len(named_props_parts) < Len(addresses)
             THEN ZipProps(named_props_parts, addresses, 1, <<>>)
             ELSE <<>>
    ELSE <<>>

\* variant: zip(names, addresses) without the test of line 67
populate_named_props_partial(names, addresses) ==
    IF Len(names) > 0
    THEN LET named_props_parts == split(names, " ")
             n == IF Len(named_props_parts) <= Len(addresses)
                  THEN Len(named_props_parts) ELSE Len(addresses)
         IN  ZipProps(SubSeq(named_props_parts, 1, n), addresses, 1, <<>>)
    ELSE <<>>

populate_named_props(names, addresses) ==
    IF Len(names) > 0
    THEN LET named_props_parts == split(names, " ")
         IN  IF Len(named_props_parts) <= Len(addresses)
             THEN ZipProps(named_props_parts, addresses, 1, <<>>)
             ELSE <<>>
    ELSE <<>>

(***************************************************************************)
(* Revup.process_inputfile: the parts of one line.                         *)
(***************************************************************************)
\* variant: only the first comment prefix of line 83
Skipped_one_prefix(command) ==
    command = "\n" \/ startswith(command, "//")

Skipped(command) ==
    command = "\n" \/ startswith(command, "//") \/ startswith(command, "\\\\")

command_and_args(command) == split(command, "->")

normalized_cmd(command) == replace(strip(command_and_args(command)[1]), "\n", "")

HasProps(command) == Len(command_and_args(command)) > 1

\* variant: split("->", 1) on line 87
PropsSpec_rest(command) ==
    replace(strip(SubSeq(command, find(command, "->") + 2, Len(command))), "\n", "")

PropsSpec(command) == replace(strip(command_and_args(command)[2]), "\n", "")

\* lines 92-94: the bindings the directive records, given what execute
\* returned; a directive without "->" records none
RecordedProps(command, addresses) ==
    IF HasProps(command)
    THEN populate_named_props(PropsSpec(command), addresses)
    ELSE <<>>

\* ResimExecutor.execute, line 129: the argument vector of subprocess.run
Argv(cmd, props) == <<RESIM_COMMAND>> \o split(perform_variable_sub(cmd, props), " ")

(***************************************************************************)
(* Revup.write_props_to_env: the lines written, one per entry.             *)
(***************************************************************************)
EnvLines(map) == [i \in DOMAIN map |-> map[i][1] \o "=" \o map[i][2] \o "\n"]

(***************************************************************************)
(* ResimExecutor.do_run_manifest: the files after the call.  The manifest  *)
(* cannot be read when it does not exist; opening the .dat file for        *)
(* writing succeeds or fails (can_write).                                  *)
(***************************************************************************)
updated_content(rtm_content, props) ==
    [i \in DOMAIN rtm_content |-> normalized_line(rtm_content[i], props)]

do_run_manifest(files, cmd, props, can_write) ==
    LET file_name == tx_file_name(cmd)
    IN  IF file_name = "" \/ file_name \notin DOMAIN files THEN files
        ELSE LET content == updated_content(files[file_name], props)
                 dat == file_name \o ".dat"
             IN  IF Len(content) > 0 /\ can_write
                 THEN [n \in DOMAIN files \cup {dat} |-> IF n = dat THEN content ELSE files[n]]
                 ELSE files

(***************************************************************************)
(* The run of process_inputfile, one loop iteration per step.              *)
(***************************************************************************)
UsesManifest(file) == \E i \in DOMAIN file : ~Skipped(file[i]) /\ IsManifestRun(normalized_cmd(file[i]))

Init ==
    /\ commands \in InputFiles
    /\ idx = 1
    /\ pc = "loop"
    /\ named_props_map = <<>>
    /\ trace = <<>>
    /\ env_file = PriorEnv
    /\ env_writes = 0
    /\ env_error = FALSE
    /\ fs \in FileSystems
    /\ (~UsesManifest(commands) => fs = NoFiles)
    /\ txt = ""
    /\ named_props = <<>>
    /\ result = ""
    /\ tool_output = <<>>
    /\ extracted = <<>>
    /\ op = "none"

AtDirective ==
    /\ pc = "loop"
    /\ idx <= Len(commands)
    /\ ~Skipped(commands[idx])

\* lines 85-95 for a directive on which execute returned addresses
Directive(kind, argv, addresses, files) ==
    /\ idx' = idx + 1
    /\ named_props_map' = DictUpdate(named_props_map, RecordedProps(commands[idx], addresses))
    /\ trace' = Append(trace, [line |-> idx, kind |-> kind,
                               cmd |-> normalized_cmd(commands[idx]),
                               props |-> named_props_map,
                               argv |-> argv, ret |-> addresses,
                               bound |-> RecordedProps(commands[idx], addresses)])
    /\ fs' = files
    /\ UNCHANGED <<commands, pc, env_file, env_writes, env_error, funVars>>

\* lines 83-84
SkipLine ==
    /\ pc = "loop"
    /\ idx <= Len(commands)
    /\ Skipped(commands[idx])
    /\ idx' = idx + 1
    /\ trace' = Append(trace, [line |-> idx, kind |-> "skipped", cmd |-> "",
                               props |-> named_props_map, argv |-> <<>>,
                               ret |-> <<>>, bound |-> <<>>])
    /\ UNCHANGED <<commands, pc, named_props_map, env_file, env_writes, env_error, fs,
                   funVars>>

\* execute, lines 127-135: the tool runs and exits with status 0
ExecuteGeneric ==
    /\ AtDirective
    /\ ~IsManifestRun(normalized_cmd(commands[idx]))
    /\ \E output \in ToolOutputs :
          Directive("generic", Argv(normalized_cmd(commands[idx]), named_props_map),
                    ExtractedAddresses[output], fs)

\* variant: the CalledProcessError is not caught
ExecuteGenericFails_raises ==
    /\ AtDirective
    /\ ~IsManifestRun(normalized_cmd(commands[idx]))
    /\ pc' = "aborted"
    /\ trace' = Append(trace, [line |-> idx, kind |-> "failed",
                               cmd |-> normalized_cmd(commands[idx]),
                               props |-> named_props_map,
                               argv |-> Argv(normalized_cmd(commands[idx]), named_props_map),
                               ret |-> <<>>, bound |-> <<>>])
    /\ UNCHANGED <<commands, idx, named_props_map, env_file, env_writes, env_error, fs,
                   funVars>>

\* execute, lines 136-139: the tool exits with a non-zero status
ExecuteGenericFails ==
    /\ AtDirective
    /\ ~IsManifestRun(normalized_cmd(commands[idx]))
    /\ Directive("failed", Argv(normalized_cmd(commands[idx]), named_props_map), <<>>, fs)

\* execute, line 131: subprocess.run raises an exception that is not a
\* CalledProcessError (the tool cannot be started); nothing catches it
ExecuteCannotStart ==
    /\ AtDirective
    /\ ~IsManifestRun(normalized_cmd(commands[idx]))
    /\ pc' = "aborted"
    /\ trace' = Append(trace, [line |-> idx, kind |-> "cannot_start",
                               cmd |-> normalized_cmd(commands[idx]),
                               props |-> named_props_map,
                               argv |-> Argv(normalized_cmd(commands[idx]), named_props_map),
                               ret |-> <<>>, bound |-> <<>>])
    /\ UNCHANGED <<commands, idx, named_props_map, env_file, env_writes, env_error, fs,
                   funVars>>

\* variant: execute returns what do_run_manifest produced
ExecuteManifest_returns_content ==
    /\ AtDirective
    /\ IsManifestRun(normalized_cmd(commands[idx]))
    /\ \E can_write \in BOOLEAN :
          Directive("manifest", <<>>,
                    IF ManifestFile \in DOMAIN fs
                    THEN updated_content(fs[ManifestFile], named_props_map) ELSE <<>>,
                    do_run_manifest(fs, normalized_cmd(commands[idx]), named_props_map, can_write))

\* variant: the manifest-run branch goes on to start the tool
ExecuteManifest_spawns ==
    /\ AtDirective
    /\ IsManifestRun(normalized_cmd(commands[idx]))
    /\ \E can_write \in BOOLEAN :
          Directive("manifest", Argv(normalized_cmd(commands[idx]), named_props_map), <<>>,
                    do_run_manifest(fs, normalized_cmd(commands[idx]), named_props_map, can_write))

\* execute, lines 123-125 and 139
ExecuteManifest ==
    /\ AtDirective
    /\ IsManifestRun(normalized_cmd(commands[idx]))
    /\ \E can_write \in BOOLEAN :
          Directive("manifest", <<>>, <<>>,
                    do_run_manifest(fs, normalized_cmd(commands[idx]), named_props_map, can_write))

\* variant: the file is opened in append mode
WritePropsToEnv_appends ==
    /\ pc = "loop"
    /\ idx > Len(commands)
    /\ pc' = "done"
    /\ env_writes' = env_writes + 1
    /\ \E written \in -1..Len(named_props_map) :
          /\ env_file' = IF written = -1 THEN env_file
                         ELSE env_file \o SubSeq(EnvLines(named_props_map), 1, written)
          /\ env_error' = (written < Len(named_props_map))
    /\ UNCHANGED <<commands, idx, named_props_map, trace, fs, funVars>>

\* line 98 and write_props_to_env: opening the file fails (written = -1), or
\* the first `written` lines are written before a write fails, or all are
WritePropsToEnv ==
    /\ pc = "loop"
    /\ idx > Len(commands)
    /\ pc' = "done"
    /\ env_writes' = env_writes + 1
    /\ \E written \in -1..Len(named_props_map) :
          /\ env_file' = IF written = -1 THEN env_file
                         ELSE SubSeq(EnvLines(named_props_map), 1, written)
          /\ env_error' = (written < Len(named_props_map))
    /\ UNCHANGED <<commands, idx, named_props_map, trace, fs, funVars>>

Next ==
    \/ SkipLine
    \/ ExecuteGeneric
    \/ ExecuteGenericFails
    \/ ExecuteCannotStart
    \/ ExecuteManifest
    \/ WritePropsToEnv

Spec == Init /\ [][Next]_vars

(***************************************************************************)
(* The substitution functions applied to bounded arguments.                *)
(***************************************************************************)
TxtChars == {"$", "a", "b", " "}
Names == {"a", "b", "ab"}
Values == {"1", "2b"}

RECURSIVE Texts(_)
Texts(n) ==
    IF n = 0 THEN {""}
    ELSE LET shorter == Texts(n - 1)
         IN  shorter \cup {t \o c : t \in {u \in shorter : Len(u) = n - 1}, c \in TxtChars}

Dicts(n) ==
    {d \in SeqsUpTo(Names \X Values, n) :
        \A i, j \in DOMAIN d : d[i][1] = d[j][1] => i = j}

InitFun ==
    /\ txt \in Texts(MaxTxt)
    /\ named_props \in Dicts(MaxProps)
    /\ result = ""
    /\ tool_output = <<>>
    /\ extracted = <<>>
    /\ op = "none"
    /\ commands = <<>>
    /\ idx = 1
    /\ pc = "idle"
    /\ named_props_map = <<>>
    /\ trace = <<>>
    /\ env_file = PriorEnv
    /\ env_writes = 0
    /\ env_error = FALSE
    /\ fs = NoFiles

ApplyPerformVariableSub ==
    /\ op = "none"
    /\ result' = perform_variable_sub(txt, named_props)
    /\ op' = "perform_variable_sub"
    /\ UNCHANGED <<txt, named_props, tool_output, extracted, progVars>>

ApplyNormalizedLine ==
    /\ op = "none"
    /\ result' = normalized_line(txt, named_props)
    /\ op' = "normalized_line"
    /\ UNCHANGED <<txt, named_props, tool_output, extracted, progVars>>

NextFun ==
    \/ ApplyPerformVariableSub
    \/ ApplyNormalizedLine

SpecFun == InitFun /\ [][NextFun]_vars

(***************************************************************************)
(* extract_output_addresses applied to bounded tool output.                *)
(***************************************************************************)
OutputLines ==
    { "Component: 1a",
      "Package: 4d Resource: 5e",
      "Account component address: 2b",
      "Public key: 3c component: 1a",
      "component: 1a component: 2b",
      "component: xy component: 2b",
      "resource: xy",
      "Transaction Status: SUCCESS" }

InitExtract ==
    /\ tool_output \in SeqsUpTo(OutputLines, MaxOutput)
    /\ extracted = <<>>
    /\ op = "none"
    /\ txt = ""
    /\ named_props = <<>>
    /\ result = ""
    /\ commands = <<>>
    /\ idx = 1
    /\ pc = "idle"
    /\ named_props_map = <<>>
    /\ trace = <<>>
    /\ env_file = PriorEnv
    /\ env_writes = 0
    /\ env_error = FALSE
    /\ fs = NoFiles

ApplyExtractOutputAddresses ==
    /\ op = "none"
    /\ extracted' = extract_output_addresses(tool_output)
    /\ op' = "extract_output_addresses"
    /\ UNCHANGED <<txt, named_props, result, tool_output, progVars>>

NextExtract == ApplyExtractOutputAddresses

SpecExtract == InitExtract /\ [][NextExtract]_vars

(***************************************************************************)
(* Vocabulary of the properties.                                           *)
(***************************************************************************)
Range(q) == {q[i] : i \in DOMAIN q}

\* a dict as a function from its keys
AsFun(d) == [k \in Keys(d) |-> Get(d, k)]

\* g laid over f: the bindings of g, and those of f for the other names
Over(f, g) == g @@ f

RECURSIVE Join(_, _)
Join(parts, sep) ==
    IF parts = <<>> THEN ""
    ELSE IF Len(parts) = 1 THEN parts[1]
    ELSE parts[1] \o sep \o Join(Tail(parts), sep)

Occurs(t, sub) == \E i \in 1..Len(t) : Slice(t, i, i + Len(sub) - 1) = sub

\* t with every occurrence of the placeholder of name replaced by address
SubstituteAll(t, name, address) == Join(split(t, "$" \o name), address)

\* the bindings recorded by the directives on lines 1..k-1, merged in order
RECURSIVE MergedBefore(_)
MergedBefore(k) ==
    IF k <= 1 THEN <<>>
    ELSE Over(MergedBefore(k - 1), AsFun(trace[k - 1].bound))

IsDirective(k) == k \in DOMAIN trace /\ trace[k].kind # "skipped"
IsSpawn(k) == k \in DOMAIN trace /\ trace[k].kind \in {"generic", "failed"}

\* the command text the tool was started with
SpawnedText(k) == Join(Tail(trace[k].argv), " ")

(***************************************************************************)
(* C1 (as amended).  Lines are handled strictly in source order; the       *)
(* binding map handed to execute for the directive on line k holds exactly *)
(* the bindings recorded by the directives on lines 1..k-1, merged in that *)
(* order; and a substitution in the command of directive k only ever       *)
(* replaces $name for a name bound by a strictly earlier directive, by the *)
(* address that binding holds.                                             *)
(***************************************************************************)
C1_OrderedAccumulation ==
    /\ \A k \in DOMAIN trace : trace[k].line = k
    /\ pc # "aborted" => idx = Len(trace) + 1
    /\ AsFun(named_props_map) = MergedBefore(Len(trace) + 1) \/ pc = "aborted"
    /\ \A k \in DOMAIN trace :
          IsDirective(k) => AsFun(trace[k].props) = MergedBefore(k)
    /\ \A k \in DOMAIN trace :
          IsSpawn(k) /\ SpawnedText(k) # trace[k].cmd =>
             \E name \in DOMAIN MergedBefore(k) :
                /\ Occurs(trace[k].cmd, "$" \o name)
                /\ SpawnedText(k) = SubstituteAll(trace[k].cmd, name, MergedBefore(k)[name])

\* a directive whose command was substituted with a binding of an earlier one
C1_Witness ==
    \E k \in DOMAIN trace :
        /\ IsSpawn(k)
        /\ k > 1
        /\ SpawnedText(k) # trace[k].cmd
        /\ pc = "done"

\* C1 as stated: the placeholder of a name occurring in the command of
\* directive k is substituted if and only if an earlier directive bound the name
C1_Original ==
    \A k \in DOMAIN trace :
        IsSpawn(k) =>
           \A name \in Names :
              Occurs(trace[k].cmd, "$" \o name) =>
                 (name \in DOMAIN MergedBefore(k) <=> ~Occurs(SpawnedText(k), "$" \o name))

(***************************************************************************)
(* Vocabulary of the per-directive properties.                             *)
(***************************************************************************)
\* the names a line declares, as populate_named_props counts them
DeclaredNamesOf ==
    [command \in Lines |->
        IF Skipped(command) \/ ~HasProps(command) \/ PropsSpec(command) = "" THEN <<>>
        ELSE split(PropsSpec(command), " ")]

DeclaredNames(command) == DeclaredNamesOf[command]

\* execute returned for the directive on line k
Returned(k) == IsDirective(k) /\ trace[k].kind # "cannot_start"

\* the binding map before and after the directive on line k
MapBefore(k) == AsFun(trace[k].props)
MapAfter(k) == AsFun(IF k < Len(trace) THEN trace[k + 1].props ELSE named_props_map)

LastPosition(names, i) == \A j \in (i + 1)..Len(names) : names[j] # names[i]

\* the address a directive gives to one of its names: that of the name's
\* last position
NewAddress(names, addresses, name) ==
    addresses[CHOOSE i \in DOMAIN names : names[i] = name /\ LastPosition(names, i)]

C3_NoPartialBinding ==
    \A k \in DOMAIN trace :
        Returned(k) /\ Len(trace[k].ret) < Len(DeclaredNames(commands[k])) =>
           /\ MapAfter(k) = MapBefore(k)
           /\ trace[k].bound = <<>>

\* two names declared, one address returned, with a binding already present
C3_Witness ==
    \E k \in DOMAIN trace :
        /\ trace[k].kind = "generic"
        /\ Len(DeclaredNames(commands[k])) = 2
        /\ Len(trace[k].ret) = 1
        /\ trace[k].props # <<>>

(***************************************************************************)
(* C4.  When a directive binds a name that is already in the binding map,  *)
(* the name's address is replaced by the new address, and every binding    *)
(* whose name is not among the directive's declared names keeps the        *)
(* address it had before the directive.                                    *)
(***************************************************************************)
C4_OverwriteAndFrame ==
    \A k \in DOMAIN trace :
        Returned(k) =>
           \A key \in DOMAIN MapBefore(k) :
              /\ key \in Keys(trace[k].bound) =>
                    /\ key \in DOMAIN MapAfter(k)
                    /\ MapAfter(k)[key] =
                          NewAddress(DeclaredNames(commands[k]), trace[k].ret, key)
              /\ key \notin Range(DeclaredNames(commands[k])) =>
                    /\ key \in DOMAIN MapAfter(k)
                    /\ MapAfter(k)[key] = MapBefore(k)[key]

\* a name was bound again, to another address, while another binding stayed
C4_Witness ==
    \E k \in DOMAIN trace :
        \E key, other \in DOMAIN MapBefore(k) :
            /\ Returned(k)
            /\ key \in Keys(trace[k].bound)
            /\ other \notin Range(DeclaredNames(commands[k]))
            /\ MapAfter(k)[key] # MapBefore(k)[key]

(***************************************************************************)
(* C5.  The set of bound names only grows: at every step of                *)
(* process_inputfile the keys of the binding map after the step are a      *)
(* superset of the keys before it.                                         *)
(***************************************************************************)
C5_KeysOnlyGrow == [][Keys(named_props_map) \subseteq Keys(named_props_map')]_vars

\* with names bound, a directive failed, one had too few addresses, a line
\* was skipped and a manifest ran: every kind of step happened
C5_Witness ==
    /\ named_props_map # <<>>
    /\ \E k \in DOMAIN trace :
          /\ trace[k].props # <<>>
          /\ trace[k].kind \in {"failed", "manifest", "skipped"}
          /\ DeclaredNames(commands[k]) # <<>> \/ trace[k].kind = "skipped"

(***************************************************************************)
(* C6.  When the external tool exits non-zero for a generic-mode           *)
(* directive, execute returns an empty result, the directive records no    *)
(* bindings, and the interpreter goes on with the next line: a run that    *)
(* ends has handled every line.                                            *)
(***************************************************************************)
C6_FailureIsSoft ==
    \A k \in DOMAIN trace :
        trace[k].kind = "failed" =>
           /\ trace[k].ret = <<>>
           /\ trace[k].bound = <<>>
           /\ MapAfter(k) = MapBefore(k)
           /\ k = Len(trace) => pc # "aborted" /\ idx = k + 1
           /\ k < Len(trace) => trace[k + 1].line = k + 1
           /\ pc = "done" => Len(trace) = Len(commands)

\* the tool failed on a directive that declares names, and a later directive
\* ran and bound a name
C6_Witness ==
    \E k \in DOMAIN trace :
        /\ trace[k].kind = "failed"
        /\ DeclaredNames(commands[k]) # <<>>
        /\ k < Len(trace)
        /\ trace[k + 1].kind = "generic"
        /\ trace[k + 1].bound # <<>>

(***************************************************************************)
(* C7.  Once directive processing has begun no exception escapes           *)
(* process_inputfile, and write_props_to_env is invoked exactly once,      *)
(* after the last directive, with the final binding map.                   *)
(***************************************************************************)
C7_AlwaysReachesWriter ==
    /\ pc # "aborted"
    /\ env_writes <= 1
    /\ env_writes = 1 <=> pc = "done"
    /\ pc = "done" => Len(trace) = Len(commands)

(***************************************************************************)
(* Vocabulary of the properties of the substitution functions.             *)
(***************************************************************************)
Count(t, sub) == Cardinality({i \in 1..Len(t) : Slice(t, i, i + Len(sub) - 1) = sub})

\* position in the dict of the first name whose placeholder occurs in t; 0
\* when no bound name's placeholder occurs
Selected(t, props) ==
    LET hits == {i \in DOMAIN props : Occurs(t, "$" \o props[i][1])}
    IN  IF hits = {} THEN 0 ELSE Min(hits)

\* t with the first occurrence of the placeholder of name replaced
SubstituteFirst(t, name, address) ==
    LET i == find(t, "$" \o name)
    IN  SubSeq(t, 1, i - 1) \o address \o SubSeq(t, i + Len(name) + 1, Len(t))

\* t with every placeholder of a bound name replaced by the name's address,
\* reading t from the left and taking the longest bound name at each "$"
RECURSIVE SubstituteEvery(_, _)
SubstituteEvery(t, f) ==
    IF t = "" THEN ""
    ELSE LET here == {n \in DOMAIN f : Slice(t, 1, Len(n) + 1) = "$" \o n}
         IN  IF here = {} THEN Char(t, 1) \o SubstituteEvery(SubSeq(t, 2, Len(t)), f)
             ELSE LET n == CHOOSE m \in here : \A o \in here : Len(o) <= Len(m)
                  IN  f[n] \o SubstituteEvery(SubSeq(t, Len(n) + 2, Len(t)), f)

(***************************************************************************)
(* C8.  perform_variable_sub substitutes the placeholder of at most one    *)
(* bound name: the first name in map order whose placeholder occurs in the *)
(* text; the placeholders of every other bound name are left untouched,    *)
(* and a text without a bound name's placeholder is returned unchanged.    *)
(***************************************************************************)
C8_OnlyFirstNameSubstituted ==
    op = "perform_variable_sub" =>
       LET i == Selected(txt, named_props)
       IN  IF i = 0 THEN result = txt
           ELSE /\ result # txt
                /\ \A j \in DOMAIN named_props \ {i} :
                      Count(result, "$" \o named_props[j][1])
                         = Count(txt, "$" \o named_props[j][1])

C10_ExhaustiveSubstitution ==
    op = "normalized_line" => result = SubstituteEvery(txt, AsFun(named_props))

(***************************************************************************)
(* C11.  A placeholder $x whose name x is not a key of the binding map is  *)
(* left verbatim, in a manifest line and in a generic command text, also   *)
(* when a bound name is a proper prefix of x.  A placeholder is "$" and    *)
(* the longest run of word characters after it; r keeps the unbound        *)
(* placeholders of t when r is t with some placeholders of bound names     *)
(* replaced by their addresses and everything else as it was.              *)
(***************************************************************************)
RECURSIVE KeepsUnbound(_, _, _)
KeepsUnbound(t, r, f) ==
    IF t = "" THEN r = ""
    ELSE IF Char(t, 1) = "$"
         THEN LET x == RunOf(SubSeq(t, 2, Len(t)), WordChars)
                  rest == SubSeq(t, Len(x) + 2, Len(t))
              IN  \/ /\ startswith(r, "$" \o x)
                     /\ KeepsUnbound(rest, SubSeq(r, Len(x) + 2, Len(r)), f)
                  \/ /\ x \in DOMAIN f
                     /\ startswith(r, f[x])
                     /\ KeepsUnbound(rest, SubSeq(r, Len(f[x]) + 1, Len(r)), f)
         ELSE /\ startswith(r, Char(t, 1))
              /\ KeepsUnbound(SubSeq(t, 2, Len(t)), SubSeq(r, 2, Len(r)), f)

C11_UnboundLeftVerbatim ==
    op \in {"perform_variable_sub", "normalized_line"} =>
       KeepsUnbound(txt, result, AsFun(named_props))

(***************************************************************************)
(* C12.  A directive executed in manifest-run mode gets an empty address   *)
(* list back from execute, whether the .dat file was written or the        *)
(* manifest could not be read or written; it records no binding and leaves *)
(* the binding map as it was, also when the line declares names.           *)
(***************************************************************************)
C12_ManifestBindsNothing ==
    \A k \in DOMAIN trace :
        trace[k].kind = "manifest" =>
           /\ trace[k].ret = <<>>
           /\ trace[k].bound = <<>>
           /\ MapAfter(k) = MapBefore(k)

\* a manifest-run directive that declares a name ran with a non-empty map
\* and its .dat file was written
C12_Witness ==
    \E k \in DOMAIN trace :
        /\ trace[k].kind = "manifest"
        /\ DeclaredNames(commands[k]) # <<>>
        /\ trace[k].props # <<>>
        /\ (ManifestFile \o ".dat") \in DOMAIN fs
        /\ pc = "done"

\* a line the interpreter is to pass over: the bare line end, or a line that
\* begins with one of the two comment markers
CommentOrBlank(line) ==
    \/ line = "\n"
    \/ Slice(line, 1, 2) = "//"
    \/ Slice(line, 1, 2) = "\\\\"

OnlyCommentsAndBlanks == \A i \in DOMAIN commands : CommentOrBlank(commands[i])

NothingExecuted ==
    /\ \A k \in DOMAIN trace : trace[k].kind = "skipped" /\ trace[k].argv = <<>>
    /\ fs = NoFiles
    /\ named_props_map = <<>>

(***************************************************************************)
(* C13 (as amended).  For a directive source that holds only comment lines *)
(* and blank lines no command is executed, the binding map stays empty,    *)
(* and the run ends with the binding file written empty, unless the file   *)
(* cannot be opened for writing: then the failure is logged and the file   *)
(* is left as it was.                                                      *)
(***************************************************************************)
C13_CommentsOnlyWriteEmptyFile ==
    OnlyCommentsAndBlanks =>
       /\ NothingExecuted
       /\ pc # "aborted"
       /\ pc = "done" =>
             /\ Len(trace) = Len(commands)
             /\ env_writes = 1
             /\ env_file = IF env_error THEN PriorEnv ELSE <<>>

\* a source of a blank line and a line of the second comment marker has
\* been run to its end and the file is empty
C13_Witness ==
    /\ OnlyCommentsAndBlanks
    /\ Len(commands) = 2
    /\ \E i \in DOMAIN commands : commands[i] = "\n"
    /\ \E i \in DOMAIN commands : Slice(commands[i], 1, 2) = "\\\\"
    /\ pc = "done"
    /\ env_file = <<>>

\* C13 as stated: the file is written empty in every such run
C13_Original ==
    OnlyCommentsAndBlanks =>
       /\ NothingExecuted
       /\ pc = "done" => env_file = <<>>

\* the line of the binding file for one binding
EnvLine(name, address) == name \o "=" \o address \o "\n"

\* the bindings some directive of the run recorded and the final map no
\* longer holds
OverwrittenBindings ==
    {b \in UNION {Range(trace[k].bound) : k \in DOMAIN trace} :
        Get(named_props_map, b[1]) # b[2]}

FileIsFinalMap ==
    /\ Len(env_file) = Len(named_props_map)
    /\ \A i \in DOMAIN env_file :
          env_file[i] = EnvLine(named_props_map[i][1], named_props_map[i][2])
    /\ \A i, j \in DOMAIN named_props_map :
          named_props_map[i][1] = named_props_map[j][1] => i = j
    /\ \A l \in Range(PriorEnv) : l \notin Range(env_file)
    /\ \A b \in OverwrittenBindings : EnvLine(b[1], b[2]) \notin Range(env_file)

(***************************************************************************)
(* C14 (as amended).  After a run in which the binding file was written    *)
(* without failure it holds exactly one name=address line per entry of the *)
(* final binding map, in map order, and nothing else: the prior content is *)
(* overwritten, not appended to, and no binding that was overwritten       *)
(* during the run appears.  When opening the file fails it keeps its prior *)
(* content; when a write fails it holds the leading lines of the map only; *)
(* the failure is logged in both cases.                                    *)
(***************************************************************************)
C14_FileHoldsFinalMap ==
    pc = "done" =>
       IF env_error
       THEN \/ env_file = PriorEnv
            \/ /\ Len(env_file) < Len(named_props_map)
               /\ \A i \in DOMAIN env_file :
                     env_file[i] = EnvLine(named_props_map[i][1], named_props_map[i][2])
       ELSE FileIsFinalMap

\* the file was written from a map of two entries, one of them rebound
\* during the run
C14_Witness ==
    /\ pc = "done"
    /\ ~env_error
    /\ Len(named_props_map) = 2
    /\ OverwrittenBindings # {}
    /\ Len(env_file) = 2

\* C14 as stated: the file holds the final map after every run
C14_Original == pc = "done" => FileIsFinalMap

\* the positions of a line at which a label, in any letter case, is followed
\* by a hexadecimal digit
LabelAt(label, line) ==
    {i \in 1..Len(line) :
        /\ lower(Slice(line, i, i + Len(label) - 1)) = label
        /\ Slice(line, i + Len(label), i + Len(label)) \in HexChars}

\* the address token after the leftmost such position
Token(label, line) ==
    RunOf(Slice(line, Min(LabelAt(label, line)) + Len(label), Len(line)), HexChars)

\* per line and pattern: the positions of the label, and the token
LabelPositions ==
    [line \in OutputLines |->
        [p \in DOMAIN address_extract_patterns |->
            LabelAt(address_extract_patterns[p], line)]]

Tokens ==
    [line \in OutputLines |->
        [p \in DOMAIN address_extract_patterns |->
            IF LabelPositions[line][p] = {} THEN ""
            ELSE Token(address_extract_patterns[p], line)]]

\* the (line, pattern) pairs that match
MatchingPairs ==
    {q \in (DOMAIN tool_output) \X (DOMAIN address_extract_patterns) :
        LabelPositions[tool_output[q[1]]][q[2]] # {}}

\* the place of a matching pair: lines in order, patterns in the order of
\* their declaration within a line
Place(q) ==
    Cardinality({r \in MatchingPairs : r[1] < q[1] \/ (r[1] = q[1] /\ r[2] <= q[2])})

(***************************************************************************)
(* C15.  extract_output_addresses returns one entry for every (line,       *)
(* pattern) pair that matches and nothing else: the entries of an earlier  *)
(* line come before those of a later line, the entries of one line stand   *)
(* in the order in which the patterns are declared wherever the labels sit *)
(* in the line, equal tokens are all kept, and a line that matches no      *)
(* pattern contributes nothing.                                            *)
(***************************************************************************)
C15_ExtractionOrder ==
    op = "extract_output_addresses" =>
       /\ Len(extracted) = Cardinality(MatchingPairs)
       /\ \A q \in MatchingPairs :
             extracted[Place(q)] = Tokens[tool_output[q[1]]][q[2]]

\* two lines were searched; on one of them the label of a later pattern
\* stands before the label of an earlier pattern, and one token was returned
\* twice
C15_Witness ==
    /\ op = "extract_output_addresses"
    /\ Len(tool_output) = 2
    /\ \E q, r \in MatchingPairs :
          /\ q[1] = r[1]
          /\ q[2] < r[2]
          /\ Min(LabelPositions[tool_output[r[1]]][r[2]])
                < Min(LabelPositions[tool_output[q[1]]][q[2]])
    /\ \E i, j \in DOMAIN extracted : i < j /\ extracted[i] = extracted[j]

\* the positions of the delimiter in a line
ArrowAt(line) == {i \in 1..Len(line) : Slice(line, i, i + 1) = "->"}

BeforeFirstArrow(line) ==
    IF ArrowAt(line) = {} THEN line ELSE Slice(line, 1, Min(ArrowAt(line)) - 1)

AfterFirstArrow(line) == Slice(line, Min(ArrowAt(line)) + 2, Len(line))

\* the text between the first delimiter and the second, or the end of the
\* line when there is no second
BetweenArrows(line) == BeforeFirstArrow(AfterFirstArrow(line))

\* the names of a names spec, as positional binding takes them
NamesOf(spec) == IF spec = "" THEN <<>> ELSE split(spec, " ")

\* per line: the command, and the names when the names spec ends at the
\* second delimiter and when it runs to the end of the line
CommandOf == [line \in Lines |-> strip(BeforeFirstArrow(line))]

NamesBetweenArrows ==
    [line \in Lines |->
        IF ArrowAt(line) = {} THEN <<>> ELSE NamesOf(strip(BetweenArrows(line)))]

NamesAfterFirstArrow ==
    [line \in Lines |->
        IF ArrowAt(line) = {} THEN <<>> ELSE NamesOf(strip(AfterFirstArrow(line)))]

\* directive k took its command from before the first delimiter and bound
\* the given names, when there were addresses enough
SplitAs(k, names) ==
    /\ trace[k].cmd = CommandOf[commands[k]]
    /\ IF names # <<>> /\ Len(names) <= Len(trace[k].ret)
       THEN Keys(trace[k].bound) = Range(names)
       ELSE trace[k].bound = <<>>

(***************************************************************************)
(* C16 (as amended).  Each non-skipped line is split at every occurrence   *)
(* of the delimiter: the command is the stripped text before the first     *)
(* delimiter, the names spec is the stripped text between the first        *)
(* delimiter and the second, or the end of the line, and what follows a    *)
(* second delimiter is ignored.                                            *)
(***************************************************************************)
C16_SplitAtEveryArrow ==
    \A k \in DOMAIN trace :
        Returned(k) => SplitAs(k, NamesBetweenArrows[commands[k]])

\* a line with two delimiters was executed and bound a name
C16_Witness ==
    \E k \in DOMAIN trace :
        /\ trace[k].kind = "generic"
        /\ Cardinality(ArrowAt(commands[k])) = 2
        /\ trace[k].bound # <<>>

\* C16 as stated: the names spec is all the text after the first delimiter
C16_Original ==
    \A k \in DOMAIN trace :
        Returned(k) => SplitAs(k, NamesAfterFirstArrow[commands[k]])

\* the non-empty pieces of a text that whitespace delimits
RECURSIVE Words(_)
Words(s) ==
    IF s = "" THEN <<>>
    ELSE IF Char(s, 1) \in Whitespace THEN Words(SubSeq(s, 2, Len(s)))
    ELSE LET w == RunOf(s, {c \in CharsOf(s) : c \notin Whitespace})
         IN  <<w>> \o Words(SubSeq(s, Len(w) + 1, Len(s)))

(***************************************************************************)
(* C17.  The names of a names spec are its non-empty pieces delimited by   *)
(* whitespace: when a directive returns at least as many addresses as      *)
(* there are such names, exactly these names are bound, each to the        *)
(* address of its position, whether one space, several spaces or a tab     *)
(* stand between them; with fewer addresses none is bound.                 *)
(***************************************************************************)
C17_WhitespaceSeparatedNames ==
    \A k \in DOMAIN trace :
        Returned(k) /\ HasProps(commands[k]) =>
           LET names == Words(PropsSpec(commands[k]))
           IN  IF names # <<>> /\ Len(names) <= Len(trace[k].ret)
               THEN /\ Keys(trace[k].bound) = Range(names)
                    /\ \A i \in DOMAIN names :
                          LastPosition(names, i) => MapAfter(k)[names[i]] = trace[k].ret[i]
               ELSE trace[k].bound = <<>>

\* the lines for which subprocess.run was called, in the order of the calls
Spawns == SelectSeq([k \in DOMAIN trace |-> IF trace[k].argv # <<>> THEN k ELSE 0],
                    LAMBDA k : k # 0)

\* the lines that are neither passed over nor a manifest run
GenericLines ==
    {line \in Lines : ~CommentOrBlank(line) /\ ~IsManifestRun(strip(BeforeFirstArrow(line)))}

GenericDirective(line) == line \in GenericLines

(***************************************************************************)
(* C18.  The tool is started once for each generic-mode directive the run  *)
(* has come to, in source order, with the command of that line, and never  *)
(* for a comment line, a blank line or a manifest-run directive; in a      *)
(* completed run the number of starts is the number of generic-mode        *)
(* directives of the source.                                               *)
(***************************************************************************)
C18_OneSpawnPerGenericDirective ==
    /\ \A k \in DOMAIN trace :
          /\ trace[k].line = k
          /\ IF GenericDirective(commands[k])
             THEN /\ trace[k].argv # <<>>
                  /\ Head(trace[k].argv) = RESIM_COMMAND
                  /\ trace[k].kind \in {"generic", "failed", "cannot_start"}
             ELSE /\ trace[k].argv = <<>>
                  /\ trace[k].kind \in {"skipped", "manifest"}
    /\ \A i, j \in DOMAIN Spawns : i < j => Spawns[i] < Spawns[j]
    /\ pc = "done" =>
          Len(Spawns) = Cardinality({i \in DOMAIN commands : GenericDirective(commands[i])})

\* a completed run over a generic-mode directive and a line for which the
\* tool is not started
C18_Witness ==
    /\ pc = "done"
    /\ Len(Spawns) = 1
    /\ Len(commands) = 2
    /\ \E k \in DOMAIN trace : trace[k].kind = "manifest"

(***************************************************************************)
(* C19.  In every state of a run each key of the binding map is a name     *)
(* declared in the names spec of a directive that has been executed, and   *)
(* its value is an address extracted from the output of the successful     *)
(* generic-mode execution of that same directive; nothing in the map comes *)
(* from a failed, manifest-run or later directive.                         *)
(***************************************************************************)
C19_BindingProvenance ==
    \A i \in DOMAIN named_props_map :
        \E k \in DOMAIN trace :
            /\ trace[k].kind = "generic"
            /\ k < idx
            /\ ArrowAt(commands[k]) # {}
            /\ named_props_map[i][1] \in Range(Words(AfterFirstArrow(commands[k])))
            /\ named_props_map[i][2] \in Range(trace[k].ret)

====
